---- MODULE Spec2Model ----
(***************************************************************************)
(* Model of Mitre_mapper/mapper.py: the rule engine of UEBAMitreMapper,    *)
(* the per-user risk reducer of process_markov_file, process_som_file and  *)
(* the load / append / write cycle of the script's main block.             *)
(*                                                                         *)
(* Numbers.  Scores, metrics and confidences are floats in the source;     *)
(* here they are integers counting thousandths (1.0 is 1000, 0.9 is 900).  *)
(* Every sequence score of the model is a multiple of 0.004 and every      *)
(* epoch count divides 1000, so score / 4.0 and attack_score /             *)
(* total_epochs are exact in thousandths.                                  *)
(*                                                                         *)
(* Text.  An action token or a 'sequence' string is a tuple of one-        *)
(* character strings, so that lower(), strip(), split('->') and the        *)
(* substring test are computed and not assumed.                            *)
(*                                                                         *)
(* Dictionaries.  A JSON object is a function from its keys; a key that    *)
(* is absent is not in the DOMAIN, and Get is dict.get.                    *)
(***************************************************************************)
EXTENDS Integers, Sequences, FiniteSets, TLC

VARIABLES
    arg,                        \* rule engine alone: the record handed to it
    out,                        \* rule engine alone: what the call produced
    pc,                         \* main block: position of the run
    runs,                       \* number of the current invocation
    file,                       \* mitre_detection_report.json on disk
    fileAtStart,                \* the same file as the current run found it
    markovArg,                  \* --markov-file: "none", "missing" or "ok"
    somArg,                     \* --som-file: "none", "missing", "badjson", "ok"
    markovFile,                 \* lines of the Markov JSONL file
    somFile,                    \* records of the SOM JSON array
    final_report,               \* main: final_report
    initial_report_size,        \* main: initial_report_size
    loaded,                     \* what load_existing_report returned
    total_sequences,            \* process_markov_file: total_sequences
    riskiest_sequences_by_user, \* process_markov_file: the dict, in key order
    somIndex,                   \* process_som_file: records consumed so far
    markovStatus,               \* how the Markov step of this run ended
    somStatus,                  \* how the SOM step of this run ended
    prevAppended                \* entries the previous run appended

vars == << arg, out, pc, runs, file, fileAtStart, markovArg, somArg, markovFile,
           somFile, final_report, initial_report_size, loaded, total_sequences,
           riskiest_sequences_by_user, somIndex, markovStatus, somStatus,
           prevAppended >>

pipelineVars == << pc, runs, file, fileAtStart, markovArg, somArg, markovFile,
                   somFile, final_report, initial_report_size, loaded,
                   total_sequences, riskiest_sequences_by_user, somIndex,
                   markovStatus, somStatus, prevAppended >>

-----------------------------------------------------------------------------
(* Bounds of the model *)

MaxSeqLen == 4
MaxLines == 4
MaxRunLines == 2
MaxSomRecords == 2
MaxRuns == 2

-----------------------------------------------------------------------------
(* Program constants, in thousandths where they are floats *)

MaxAnomaly == 1000
ScoreDivisor == 4
GateThreshold == 900
LoginConfidenceCap == 700
MinRepetitiveLen == 3
RepetitionRatio == 600
RepetitiveConfidenceCap == 600
FallbackConfidence == 550
DefaultTotalEpochs == 1
SomRateThreshold == 300
SomBaseConfidence == 500
SomHighConfidenceCap == 900
ProxyConfidence == 650
SomMixedConfidenceCap == 800

-----------------------------------------------------------------------------
(* Generic helpers: dict.get, min, text *)

Get(d, k, default) == IF k \in DOMAIN d THEN d[k] ELSE default

Min(a, b) == IF a <= b THEN a ELSE b

\* str.lower(), on the letters the model's texts use
LowerChar(c) ==
    CASE c = "L" -> "l"
      [] c = "O" -> "o"
      [] c = "G" -> "g"
      [] c = "I" -> "i"
      [] c = "N" -> "n"
      [] c = "F" -> "f"
      [] c = "A" -> "a"
      [] OTHER -> c

Lower(s) == [i \in 1..Len(s) |-> LowerChar(s[i])]

\* sub in s
Contains(s, sub) ==
    \E i \in 0..(Len(s) - Len(sub)) : SubSeq(s, i + 1, i + Len(sub)) = sub

\* str.strip(), spaces being the only whitespace of the model's texts
RECURSIVE Strip(_)
Strip(s) ==
    IF s = <<>> THEN s
    ELSE IF Head(s) = " " THEN Strip(Tail(s))
    ELSE IF s[Len(s)] = " " THEN Strip(SubSeq(s, 1, Len(s) - 1))
    ELSE s

\* str.split('->')
RECURSIVE SplitArrow(_)
SplitArrow(s) ==
    LET hits == { i \in 1..(Len(s) - 1) : s[i] = "-" /\ s[i + 1] = ">" }
    IN  IF hits = {} THEN << s >>
        ELSE LET i == CHOOSE j \in hits : \A k \in hits : j <= k
             IN  << SubSeq(s, 1, i - 1) >> \o SplitArrow(SubSeq(s, i + 2, Len(s)))

LoginText == << "l", "o", "g", "i", "n" >>
AuthLoginText == << "a", "u", "t", "h", "_" >> \o LoginText
AuthLogoutText == << "a", "u", "t", "h", "_", "l", "o", "g", "o", "u", "t" >>
SysWindowsEventText ==
    << "s", "y", "s", "_", "w", "i", "n", "d", "o", "w", "s", "_",
       "e", "v", "e", "n", "t" >>

\* the list literal of line 59
NoiseActions == { AuthLoginText, AuthLogoutText, SysWindowsEventText }

-----------------------------------------------------------------------------
(* UEBAMitreMapper._map_markov_generic *)

Technique(id, name, confidence, rule) ==
    [id |-> id, name |-> name, confidence |-> confidence, rule_matched |-> rule]

\* lines 31-32: the token list of a record
SequenceOf(sequence_data) ==
    LET sequence_str == Get(sequence_data, "sequence", <<>>)
    IN  IF sequence_str # <<>>
        THEN LET parts == SplitArrow(sequence_str)
             IN  [i \in 1..Len(parts) |-> Strip(parts[i])]
        ELSE Get(sequence_data, "actions", <<>>)

\* AnomalyScore with the division by 4.0 left out
AnomalyScore_Unscaled(sequence_data) ==
    IF "score" \notin DOMAIN sequence_data THEN 0
    ELSE LET score == sequence_data["score"]
         IN  IF score = 0 THEN MaxAnomaly
             ELSE IF score > 0 THEN Min(MaxAnomaly, score)
             ELSE 0

\* lines 34-41: the anomaly metric the rule engine computes
AnomalyScore(sequence_data) ==
    IF "score" \notin DOMAIN sequence_data THEN 0
    ELSE LET score == sequence_data["score"]
         IN  IF score = 0 THEN MaxAnomaly
             ELSE IF score > 0 THEN Min(MaxAnomaly, score \div ScoreDivisor)
             ELSE 0

\* line 43
BelowGate(anomaly_score) == anomaly_score < GateThreshold

\* line 46
LoginRule(sequence) ==
    \E i \in 1..Len(sequence) : Contains(Lower(sequence[i]), LoginText)

\* lines 57-60: action_counts
ActionCount(sequence, action) ==
    Cardinality({ i \in 1..Len(sequence) : Lower(sequence[i]) = action })

CountedActions(sequence) ==
    { Lower(sequence[i]) : i \in 1..Len(sequence) } \ NoiseActions

\* lines 56-72: count >= len(sequence) * 0.6 for some counted action
RepetitiveRule(sequence) ==
    /\ Len(sequence) >= MinRepetitiveLen
    /\ \E action \in CountedActions(sequence) :
          ActionCount(sequence, action) * 1000 >= Len(sequence) * RepetitionRatio

\* FallbackApplies without "and not techniques"
FallbackApplies_IgnoringMatches(anomaly_score, techniques) ==
    anomaly_score = MaxAnomaly

\* line 74
FallbackApplies(anomaly_score, techniques) ==
    anomaly_score = MaxAnomaly /\ techniques = <<>>

map_markov_sequence(sequence_data) ==
    LET sequence == SequenceOf(sequence_data)
        anomaly_score == AnomalyScore(sequence_data)
        login ==
            IF LoginRule(sequence)
            THEN << Technique("T1078", "Valid Accounts",
                              Min(LoginConfidenceCap, anomaly_score),
                              "markov_suspicious_login_pattern") >>
            ELSE <<>>
        repetitive ==
            IF RepetitiveRule(sequence)
            THEN << Technique("T1041",
                              "Exfiltration Over Command and Control Channel",
                              Min(RepetitiveConfidenceCap, anomaly_score),
                              "markov_repetitive_action_pattern") >>
            ELSE <<>>
        fallback ==
            IF FallbackApplies(anomaly_score, login \o repetitive)
            THEN << Technique("TA0009", "Collection", FallbackConfidence,
                              "markov_max_anomaly_score_fallback") >>
            ELSE <<>>
    IN  IF BelowGate(anomaly_score) THEN <<>>
        ELSE login \o repetitive \o fallback

-----------------------------------------------------------------------------
(* UEBAMitreMapper.map_som_results.  The call either returns a list or     *)
(* raises: ZeroDivisionError at line 93, KeyError at line 113.             *)

Returned(techniques) == [raised |-> FALSE, techniques |-> techniques]
Raised == [raised |-> TRUE, techniques |-> <<>>]

\* line 93, defined where total_epochs is not 0
SomMetric(attack_score, total_epochs) == (attack_score * 1000) \div total_epochs

\* line 106
AlwaysFlaggedRule(som_data, total_epochs, attack_score) ==
    Get(som_data, "flagged_epochs", 0) = total_epochs /\ attack_score = 0

map_som_results(som_data) ==
    LET attack_score == Get(som_data, "attack_score", 0)
        benign_score == Get(som_data, "benign_score", 0)
        total_epochs == Get(som_data, "total_epochs", DefaultTotalEpochs)
    IN  IF total_epochs = 0 THEN Raised
        ELSE
        LET anomaly_metric == SomMetric(attack_score, total_epochs)
            high ==
                IF anomaly_metric >= SomRateThreshold
                THEN << Technique("T1070.004", "Indicator Removal: File Deletion",
                                  Min(SomHighConfidenceCap,
                                      SomBaseConfidence + anomaly_metric),
                                  "som_high_attack_score") >>
                ELSE <<>>
            proxy ==
                IF AlwaysFlaggedRule(som_data, total_epochs, attack_score)
                THEN << Technique("T1090", "Proxy", ProxyConfidence,
                                  "som_always_flagged_no_attack_score") >>
                ELSE <<>>
            mixed ==
                IF attack_score > 0 /\ benign_score > 0
                   /\ attack_score > benign_score
                THEN << Technique("T1078", "Valid Accounts",
                                  Min(SomMixedConfidenceCap,
                                      SomBaseConfidence + anomaly_metric),
                                  "som_mixed_high_attack_score") >>
                ELSE <<>>
        IN  IF proxy # <<>> /\ "flagged_epochs" \notin DOMAIN som_data
            THEN Raised
            ELSE Returned(high \o proxy \o mixed)

-----------------------------------------------------------------------------
(* Inputs of the rule engine *)

FooText == << "f", "o", "o" >>
FooUpperText == << "F", "O", "O" >>
AuthLoginMixedText == << "A", "u", "t", "h", "_", "L", "O", "G", "I", "N" >>
ArrowText == << "-", ">" >>

Tokens == { LoginText, AuthLoginMixedText, FooText, FooUpperText }

ActionLists == UNION { [1..n -> Tokens] : n \in 0..MaxSeqLen }

\* "foo->foo -> FOO", "LOGIN", "foo->->auth_logout", and the empty string
SequenceStrings ==
    { <<>>,
      FooText \o ArrowText \o FooText \o << " " >> \o ArrowText \o << " " >>
          \o FooUpperText,
      << "L", "O", "G", "I", "N" >>,
      FooText \o ArrowText \o ArrowText \o AuthLogoutText }

\* absent, -1.0, 0.0, 2.0, 3.596, 3.6, 4.0, 6.0
Scores == { -1000, 0, 2000, 3596, 3600, 4000, 6000 }

Present(S) == { << x >> : x \in S }
Optional(S) == { <<>> } \cup Present(S)

\* the JSON object with key k when opt holds a value, the empty object otherwise
Field(k, opt) == IF opt = <<>> THEN <<>> ELSE k :> opt[1]

SeqRecords ==
    { Field("score", sc) @@ Field("sequence", sq) @@ Field("actions", ac) :
        sc \in Optional(Scores), sq \in Optional(SequenceStrings),
        ac \in Optional(ActionLists) }

Epochs == { 0, 1, 2, 10 }
AttackScores == { 0, 1, 3, 5 }
BenignScores == { 0, 1, 6 }

SomRecords ==
    { Field("attack_score", a) @@ Field("benign_score", b)
        @@ Field("total_epochs", t) @@ Field("flagged_epochs", f) :
        a \in Optional(AttackScores), b \in Optional(BenignScores),
        t \in Optional(Epochs), f \in Optional(Epochs) }

-----------------------------------------------------------------------------
(* The state of a process that has not started the main block *)

NoFile == [state |-> "absent", entries |-> <<>>]

PipelineIdle ==
    /\ pc = "idle"
    /\ runs = 0
    /\ file = NoFile
    /\ fileAtStart = NoFile
    /\ markovArg = "none"
    /\ somArg = "none"
    /\ markovFile = <<>>
    /\ somFile = <<>>
    /\ final_report = <<>>
    /\ initial_report_size = 0
    /\ loaded = <<>>
    /\ total_sequences = 0
    /\ riskiest_sequences_by_user = <<>>
    /\ somIndex = 0
    /\ markovStatus = "pending"
    /\ somStatus = "pending"
    /\ prevAppended = <<>>

-----------------------------------------------------------------------------
(* The sequence-source rule engine, applied to one record *)

InitSeq == arg \in SeqRecords /\ out = <<>> /\ PipelineIdle

CallMapMarkovSequence ==
    /\ pc = "idle"
    /\ out = <<>>
    /\ arg \in SeqRecords
    /\ out' = << Returned(map_markov_sequence(arg)) >>
    /\ UNCHANGED << arg, pipelineVars >>

NextSeq == CallMapMarkovSequence

SpecSeq == InitSeq /\ [][NextSeq]_vars

(* The map-source rule engine, applied to one record *)

InitSom == arg \in SomRecords /\ out = <<>> /\ PipelineIdle

CallMapSomResults ==
    /\ pc = "idle"
    /\ out = <<>>
    /\ arg \in SomRecords
    /\ out' = << map_som_results(arg) >>
    /\ UNCHANGED << arg, pipelineVars >>

NextSom == CallMapSomResults

SpecSom == InitSom /\ [][NextSom]_vars

-----------------------------------------------------------------------------
(* calculate_risk_score, load_existing_report, and the entries appended    *)

\* calculate_risk_score without the branch that maps score 0.0 to 1.0
calculate_risk_score_NoInversion(sequence_data) ==
    IF "score" \notin DOMAIN sequence_data THEN 0
    ELSE LET score == sequence_data["score"]
         IN  IF score > 0 THEN Min(MaxAnomaly, score \div ScoreDivisor)
             ELSE 0

calculate_risk_score(sequence_data) ==
    IF "score" \notin DOMAIN sequence_data THEN 0
    ELSE LET score == sequence_data["score"]
         IN  IF score = 0 THEN MaxAnomaly
             ELSE IF score > 0 THEN Min(MaxAnomaly, score \div ScoreDivisor)
             ELSE 0

\* the file holds a JSON array (state "ok"), does not parse ("corrupt"), or
\* does not exist or is empty ("absent")
load_existing_report(f) == IF f.state = "ok" THEN f.entries ELSE <<>>

\* AppendEntry that skips an entry the report already holds
AppendEntry_Deduplicating(report_list, report_entry) ==
    IF \E i \in 1..Len(report_list) : report_list[i] = report_entry
    THEN report_list
    ELSE Append(report_list, report_entry)

\* AppendEntry as report_list.insert(0, report_entry)
AppendEntry_AtFront(report_list, report_entry) ==
    << report_entry >> \o report_list

\* report_list.append(report_entry)
AppendEntry(report_list, report_entry) == Append(report_list, report_entry)

\* line 166: not user_id
NoUserId(sequence_data) ==
    "user_id" \notin DOMAIN sequence_data \/ sequence_data["user_id"] = ""

\* BetterRisk with >= for >
BetterRisk_OrEqual(current_risk, retained_risk) ==
    current_risk >= retained_risk

\* line 171, second disjunct
BetterRisk(current_risk, retained_risk) == current_risk > retained_risk

KeyIndex(dict, user_id) ==
    CHOOSE i \in 1..Len(dict) : dict[i].user_id = user_id

\* lines 164-176: one parsed line against the dictionary
Retain(dict, sequence_data, line_num) ==
    IF NoUserId(sequence_data) THEN dict
    ELSE LET user_id == sequence_data["user_id"]
             current_risk == calculate_risk_score(sequence_data)
             item == [user_id |-> user_id, risk_score |-> current_risk,
                      data |-> sequence_data, original_line_num |-> line_num]
         IN  IF \A i \in 1..Len(dict) : dict[i].user_id # user_id
             THEN Append(dict, item)
             ELSE LET k == KeyIndex(dict, user_id)
                  IN  IF BetterRisk(current_risk, dict[k].risk_score)
                      THEN [dict EXCEPT ![k] = item]
                      ELSE dict

\* lines 160-179: one line of the file
ReadOne(dict, line, line_num) ==
    IF line.malformed THEN dict ELSE Retain(dict, line.data, line_num)

MarkovEntry(i, item, techniques) ==
    [sequence_id |-> [prefix |-> "Markov_User_", n |-> i, suffix |-> "_TopRisk"],
     user_id |-> item.user_id,
     raw_data |-> item.data,
     source |-> "markov",
     detected_techniques |-> techniques]

\* lines 188-203: the loop over the retained records, from position i on
RECURSIVE MapRetained(_, _, _)
MapRetained(dict, i, report_list) ==
    IF i > Len(dict) THEN report_list
    ELSE LET techniques == map_markov_sequence(dict[i].data)
         IN  MapRetained(dict, i + 1,
                 IF techniques # <<>>
                 THEN AppendEntry(report_list,
                                  MarkovEntry(i, dict[i], techniques))
                 ELSE report_list)

SomEntry(i, som_data, techniques) ==
    [sequence_id |-> [prefix |-> "SOM_User_", n |-> i, suffix |-> ""],
     user_id |-> Get(som_data, "user_id", "N/A"),
     raw_data |-> som_data,
     source |-> "som",
     detected_techniques |-> techniques]

\* ShouldWrite with >= for >
ShouldWrite_OrEqual(report_size, initial_size) == report_size >= initial_size

\* line 264
ShouldWrite(report_size, initial_size) == report_size > initial_size

-----------------------------------------------------------------------------
(* Inputs of a run *)

Malformed == [malformed |-> TRUE, data |-> <<>>]
Line(sequence_data) == [malformed |-> FALSE, data |-> sequence_data]

\* a line that is not JSON; a record without user_id; three records of u1
\* (metric 0.5, 1.0 and 1.0); a record of u2 (metric 0.9)
MarkovLineKinds ==
    { Malformed,
      Line([score |-> 0, actions |-> << LoginText >>]),
      Line([user_id |-> "u1", score |-> 2000,
            actions |-> << FooText, FooText, FooText >>]),
      Line([user_id |-> "u1", score |-> 4000,
            actions |-> << AuthLoginMixedText, FooText >>]),
      Line([user_id |-> "u1", score |-> 0, actions |-> <<>>]),
      Line([user_id |-> "u2", score |-> 3600,
            sequence |-> FooText \o ArrowText \o FooText \o << " " >>
                         \o ArrowText \o << " " >> \o FooUpperText]) }

\* the lines of the files that the repeated runs read
RunLineKinds ==
    { Malformed,
      Line([user_id |-> "u1", score |-> 2000,
            actions |-> << FooText, FooText, FooText >>]),
      Line([user_id |-> "u1", score |-> 4000,
            actions |-> << AuthLoginMixedText, FooText >>]),
      Line([user_id |-> "u2", score |-> 3600,
            sequence |-> FooText \o ArrowText \o FooText \o << " " >>
                         \o ArrowText \o << " " >> \o FooUpperText]) }

SomRecordKinds ==
    { [attack_score |-> 5, benign_score |-> 1, total_epochs |-> 10,
       flagged_epochs |-> 10],
      [user_id |-> "u2", attack_score |-> 0, total_epochs |-> 0,
       flagged_epochs |-> 0],
      [user_id |-> "u1", attack_score |-> 1, benign_score |-> 6,
       total_epochs |-> 10] }

\* an entry an earlier invocation on other input left in the report
PriorEntry ==
    SomEntry(1, [user_id |-> "u0", attack_score |-> 0, total_epochs |-> 2,
                 flagged_epochs |-> 2],
             map_som_results([user_id |-> "u0", attack_score |-> 0,
                              total_epochs |-> 2,
                              flagged_epochs |-> 2]).techniques)

PriorFiles == { NoFile, [state |-> "ok", entries |-> << PriorEntry >>] }

-----------------------------------------------------------------------------
(* The main block, run MaxRuns times on the same input files.  The first   *)
(* run fixes the content of the input files as it reads them.              *)

InitWith(markovArgs, somArgs) ==
    /\ arg = <<>>
    /\ out = <<>>
    /\ pc = "start"
    /\ runs = 1
    /\ file \in PriorFiles
    /\ fileAtStart = file
    /\ markovArg \in markovArgs
    /\ somArg \in somArgs
    /\ markovFile = <<>>
    /\ somFile = <<>>
    /\ final_report = <<>>
    /\ initial_report_size = 0
    /\ loaded = <<>>
    /\ total_sequences = 0
    /\ riskiest_sequences_by_user = <<>>
    /\ somIndex = 0
    /\ markovStatus = "pending"
    /\ somStatus = "pending"
    /\ prevAppended = <<>>

Init == InitWith({ "none", "missing", "ok" },
                 { "none", "missing", "badjson", "ok" })

\* lines 250-253
UsageExit ==
    /\ pc = "start"
    /\ markovArg = "none" /\ somArg = "none"
    /\ pc' = "usage_exit"
    /\ UNCHANGED << arg, out, runs, file, fileAtStart, markovArg, somArg,
                    markovFile, somFile, final_report, initial_report_size,
                    loaded, total_sequences, riskiest_sequences_by_user,
                    somIndex, markovStatus, somStatus, prevAppended >>

\* lines 255-256
LoadExistingReport ==
    /\ pc = "start"
    /\ ~(markovArg = "none" /\ somArg = "none")
    /\ final_report' = load_existing_report(file)
    /\ initial_report_size' = Len(final_report')
    /\ loaded' = final_report'
    /\ pc' = "markov"
    /\ UNCHANGED << arg, out, runs, file, fileAtStart, markovArg, somArg,
                    markovFile, somFile, total_sequences,
                    riskiest_sequences_by_user, somIndex, markovStatus,
                    somStatus, prevAppended >>

\* line 258, args.markov_file not given
MarkovNotRequested ==
    /\ pc = "markov"
    /\ markovArg = "none"
    /\ markovStatus' = "skipped"
    /\ pc' = "som"
    /\ UNCHANGED << arg, out, runs, file, fileAtStart, markovArg, somArg,
                    markovFile, somFile, final_report, initial_report_size,
                    loaded, total_sequences, riskiest_sequences_by_user,
                    somIndex, somStatus, prevAppended >>

\* lines 181-183
MarkovFileNotFound ==
    /\ pc = "markov"
    /\ markovArg = "missing"
    /\ markovStatus' = "notfound"
    /\ pc' = "som"
    /\ UNCHANGED << arg, out, runs, file, fileAtStart, markovArg, somArg,
                    markovFile, somFile, final_report, initial_report_size,
                    loaded, total_sequences, riskiest_sequences_by_user,
                    somIndex, somStatus, prevAppended >>

\* lines 160-179, one iteration; the first run reads a file of at most
\* maxLines lines drawn from kinds
MarkovReadLine(kinds, maxLines) ==
    /\ pc = "markov"
    /\ markovArg = "ok"
    /\ IF runs = 1 THEN Len(markovFile) < maxLines
                   ELSE total_sequences < Len(markovFile)
    /\ \E line \in IF runs = 1 THEN kinds
                               ELSE { markovFile[total_sequences + 1] } :
          /\ markovFile' = IF runs = 1 THEN Append(markovFile, line)
                                       ELSE markovFile
          /\ total_sequences' = total_sequences + 1
          /\ riskiest_sequences_by_user' =
                ReadOne(riskiest_sequences_by_user, line, total_sequences')
    /\ UNCHANGED << arg, out, pc, runs, file, fileAtStart, markovArg, somArg,
                    somFile, final_report, initial_report_size, loaded,
                    somIndex, markovStatus, somStatus, prevAppended >>

\* lines 185-205, at the end of the file
MarkovMapRetained ==
    /\ pc = "markov"
    /\ markovArg = "ok"
    /\ runs = 1 \/ total_sequences = Len(markovFile)
    /\ final_report' = MapRetained(riskiest_sequences_by_user, 1, final_report)
    /\ markovStatus' = "done"
    /\ pc' = "som"
    /\ UNCHANGED << arg, out, runs, file, fileAtStart, markovArg, somArg,
                    markovFile, somFile, initial_report_size, loaded,
                    total_sequences, riskiest_sequences_by_user, somIndex,
                    somStatus, prevAppended >>

\* line 261, args.som_file not given
SomNotRequested ==
    /\ pc = "som"
    /\ somArg = "none"
    /\ somStatus' = "skipped"
    /\ pc' = "write"
    /\ UNCHANGED << arg, out, runs, file, fileAtStart, markovArg, somArg,
                    markovFile, somFile, final_report, initial_report_size,
                    loaded, total_sequences, riskiest_sequences_by_user,
                    somIndex, markovStatus, prevAppended >>

\* lines 234-235
SomFileNotFound ==
    /\ pc = "som"
    /\ somArg = "missing"
    /\ somStatus' = "notfound"
    /\ pc' = "write"
    /\ UNCHANGED << arg, out, runs, file, fileAtStart, markovArg, somArg,
                    markovFile, somFile, final_report, initial_report_size,
                    loaded, total_sequences, riskiest_sequences_by_user,
                    somIndex, markovStatus, prevAppended >>

\* lines 236-237
SomDecodeError ==
    /\ pc = "som"
    /\ somArg = "badjson"
    /\ somStatus' = "badjson"
    /\ pc' = "write"
    /\ UNCHANGED << arg, out, runs, file, fileAtStart, markovArg, somArg,
                    markovFile, somFile, final_report, initial_report_size,
                    loaded, total_sequences, riskiest_sequences_by_user,
                    somIndex, markovStatus, prevAppended >>

\* lines 219-232, one iteration; an exception of map_som_results is caught
\* by neither except clause and ends the process
SomRecord ==
    /\ pc = "som"
    /\ somArg = "ok"
    /\ IF runs = 1 THEN Len(somFile) < MaxSomRecords
                   ELSE somIndex < Len(somFile)
    /\ \E som_data \in IF runs = 1 THEN SomRecordKinds
                                   ELSE { somFile[somIndex + 1] } :
          LET result == map_som_results(som_data)
          IN  /\ somFile' = IF runs = 1 THEN Append(somFile, som_data)
                                        ELSE somFile
              /\ somIndex' = somIndex + 1
              /\ IF result.raised
                 THEN /\ pc' = "crashed"
                      /\ somStatus' = "raised"
                      /\ UNCHANGED final_report
                 ELSE /\ final_report' =
                            IF result.techniques # <<>>
                            THEN AppendEntry(final_report,
                                     SomEntry(somIndex', som_data,
                                              result.techniques))
                            ELSE final_report
                      /\ UNCHANGED << pc, somStatus >>
    /\ UNCHANGED << arg, out, runs, file, fileAtStart, markovArg, somArg,
                    markovFile, initial_report_size, loaded, total_sequences,
                    riskiest_sequences_by_user, markovStatus, prevAppended >>

\* line 239, after the last record
SomEnd ==
    /\ pc = "som"
    /\ somArg = "ok"
    /\ runs = 1 \/ somIndex = Len(somFile)
    /\ somStatus' = "done"
    /\ pc' = "write"
    /\ UNCHANGED << arg, out, runs, file, fileAtStart, markovArg, somArg,
                    markovFile, somFile, final_report, initial_report_size,
                    loaded, total_sequences, riskiest_sequences_by_user,
                    somIndex, markovStatus, prevAppended >>

\* lines 264-275.  open() may fail and leave the file as it was; json.dump
\* may fail after open() truncated the file
WriteReport ==
    /\ pc = "write"
    /\ IF ShouldWrite(Len(final_report), initial_report_size)
       THEN file' \in { [state |-> "ok", entries |-> final_report],
                        file,
                        [state |-> "corrupt", entries |-> <<>>] }
       ELSE file' = file
    /\ pc' = "done"
    /\ UNCHANGED << arg, out, runs, fileAtStart, markovArg, somArg,
                    markovFile, somFile, final_report, initial_report_size,
                    loaded, total_sequences, riskiest_sequences_by_user,
                    somIndex, markovStatus, somStatus, prevAppended >>

\* the script is invoked again with the same arguments and input files
NextRun ==
    /\ pc \in { "done", "crashed" }
    /\ runs < MaxRuns
    /\ runs' = runs + 1
    /\ pc' = "start"
    /\ fileAtStart' = file
    /\ prevAppended' =
          SubSeq(final_report, initial_report_size + 1, Len(final_report))
    /\ final_report' = <<>>
    /\ initial_report_size' = 0
    /\ loaded' = <<>>
    /\ total_sequences' = 0
    /\ riskiest_sequences_by_user' = <<>>
    /\ somIndex' = 0
    /\ markovStatus' = "pending"
    /\ somStatus' = "pending"
    /\ UNCHANGED << arg, out, file, markovArg, somArg, markovFile, somFile >>

Next ==
    \/ UsageExit
    \/ LoadExistingReport
    \/ MarkovNotRequested
    \/ MarkovFileNotFound
    \/ MarkovReadLine(RunLineKinds, MaxRunLines)
    \/ MarkovMapRetained
    \/ SomNotRequested
    \/ SomFileNotFound
    \/ SomDecodeError
    \/ SomRecord
    \/ SomEnd
    \/ WriteReport
    \/ NextRun

Spec == Init /\ [][Next]_vars

(* One run on a Markov file alone, of at most MaxLines lines *)

InitMarkov == InitWith({ "ok" }, { "none" })

NextMarkov ==
    \/ LoadExistingReport
    \/ MarkovReadLine(MarkovLineKinds, MaxLines)
    \/ MarkovMapRetained
    \/ SomNotRequested
    \/ WriteReport

SpecMarkov == InitMarkov /\ [][NextMarkov]_vars

-----------------------------------------------------------------------------
(* What the claims speak of, stated without the model's operators *)

\* the anomaly metric of a sequence record: 0 without score or with a
\* negative one, 1.0 for score 0, min(1.0, score / 4) otherwise
MetricOf(rec) ==
    IF "score" \notin DOMAIN rec THEN 0
    ELSE IF rec["score"] = 0 THEN 1000
    ELSE IF rec["score"] < 0 THEN 0
    ELSE IF rec["score"] >= 4000 THEN 1000
    ELSE rec["score"] \div 4

HasId(techniques, id) == \E i \in 1..Len(techniques) : techniques[i].id = id

\* the lines this run has read
LinesRead == SubSeq(markovFile, 1, total_sequences)

\* positions of the well-formed lines of user u
LinesOf(lines, u) ==
    { j \in 1..Len(lines) :
        /\ ~lines[j].malformed
        /\ "user_id" \in DOMAIN lines[j].data
        /\ lines[j].data["user_id"] = u }

UsersOf(lines) == { u \in { "u1", "u2" } : LinesOf(lines, u) # {} }

MinOf(S) == CHOOSE j \in S : \A k \in S : j <= k

\* position of the first line of u among those of maximal metric
BestLine(lines, u) ==
    MinOf({ j \in LinesOf(lines, u) :
              \A k \in LinesOf(lines, u) :
                  MetricOf(lines[j].data) >= MetricOf(lines[k].data) })

\* 1-based rank of u among the users, by first appearance
RankOf(lines, u) ==
    1 + Cardinality({ v \in UsersOf(lines) :
                        MinOf(LinesOf(lines, v)) < MinOf(LinesOf(lines, u)) })

UserOfRank(lines, n) == CHOOSE u \in UsersOf(lines) : RankOf(lines, u) = n

\* the sequence-source entries of a run on these lines, in retained-user order
RECURSIVE ExpectedMarkovEntries(_, _)
ExpectedMarkovEntries(lines, n) ==
    IF n > Cardinality(UsersOf(lines)) THEN <<>>
    ELSE LET u == UserOfRank(lines, n)
             rec == lines[BestLine(lines, u)].data
             techniques == map_markov_sequence(rec)
             item == [user_id |-> u, data |-> rec]
         IN  (IF techniques # <<>>
              THEN << MarkovEntry(n, item, techniques) >> ELSE <<>>)
             \o ExpectedMarkovEntries(lines, n + 1)

\* the map-source entries of records 1..k of the array, in array order
RECURSIVE ExpectedSomEntries(_, _)
ExpectedSomEntries(records, k) ==
    IF k = 0 THEN <<>>
    ELSE LET result == map_som_results(records[k])
         IN  ExpectedSomEntries(records, k - 1)
             \o (IF result.techniques # <<>>
                 THEN << SomEntry(k, records[k], result.techniques) >>
                 ELSE <<>>)

\* the entries this run has appended so far
AppendedThisRun ==
    SubSeq(final_report, initial_report_size + 1, Len(final_report))

InRun == pc \in { "markov", "som", "write", "done", "crashed" }

-----------------------------------------------------------------------------
(* C1: a sequence record whose score is absent, negative or strictly       *)
(* between 0 and 3.6 gets an empty match list from map_markov_sequence,    *)
(* whatever its sequence or actions hold.                                  *)
C1_BelowGateNoMatch ==
    (/\ out # <<>>
     /\ \/ "score" \notin DOMAIN arg
        \/ arg["score"] < 0
        \/ (0 < arg["score"] /\ arg["score"] < 3600))
    => out[1].techniques = <<>>

\* a record just below the gate whose tokens would fire both pattern rules
C1_Witness ==
    /\ out # <<>>
    /\ "score" \in DOMAIN arg /\ arg["score"] = 3596
    /\ "sequence" \notin DOMAIN arg
    /\ "actions" \in DOMAIN arg
    /\ arg["actions"] = << LoginText, LoginText, LoginText >>
    /\ out[1].techniques = <<>>

(* C2: in the list returned for one sequence record, the TA0009 fallback   *)
(* (confidence 0.55) is present exactly when the metric is 1.0 and neither *)
(* T1078 nor T1041 is; it then is the only match; and no two matches of    *)
(* the list share a rule_matched value.                                    *)
C2_FallbackExactlyWhenNothingFired ==
    out # <<>> =>
        LET t == out[1].techniques
        IN  /\ HasId(t, "TA0009") <=>
                  (/\ MetricOf(arg) = 1000
                   /\ ~HasId(t, "T1078")
                   /\ ~HasId(t, "T1041"))
            /\ \A i \in 1..Len(t) :
                  t[i].id = "TA0009" => t[i].confidence = 550 /\ Len(t) = 1
            /\ \A i, j \in 1..Len(t) :
                  t[i].rule_matched = t[j].rule_matched => i = j

\* metric 1.0 and both pattern rules fired: two matches, no fallback
C2_Witness ==
    /\ out # <<>>
    /\ MetricOf(arg) = 1000
    /\ Len(out[1].techniques) = 2
    /\ HasId(out[1].techniques, "T1078")
    /\ HasId(out[1].techniques, "T1041")
    /\ ~HasId(out[1].techniques, "TA0009")

(* C3: while and after process_markov_file reads, the dictionary holds     *)
(* exactly one record for each user of a well-formed line read, and it is  *)
(* the first-read one among that user's records of maximal metric;         *)
(* malformed lines and records without user leave it as it is.             *)
C3_ReducerKeepsFirstMaximal ==
    InRun =>
        LET dict == riskiest_sequences_by_user
        IN  /\ { dict[i].user_id : i \in 1..Len(dict) } = UsersOf(LinesRead)
            /\ Len(dict) = Cardinality(UsersOf(LinesRead))
            /\ \A i \in 1..Len(dict) :
                  LET best == BestLine(LinesRead, dict[i].user_id)
                  IN  /\ dict[i].original_line_num = best
                      /\ dict[i].data = LinesRead[best].data
                      /\ dict[i].risk_score = MetricOf(dict[i].data)

\* a malformed line, then two records of u1 that tie at metric 1.0 and
\* differ: the earlier one is retained
C3_Witness ==
    /\ pc = "markov"
    /\ total_sequences = 3
    /\ LinesRead[1].malformed
    /\ LinesOf(LinesRead, "u1") = { 2, 3 }
    /\ MetricOf(LinesRead[2].data) = 1000
    /\ MetricOf(LinesRead[3].data) = 1000
    /\ LinesRead[2].data # LinesRead[3].data
    /\ Len(riskiest_sequences_by_user) = 1
    /\ riskiest_sequences_by_user[1].original_line_num = 2

\* the prior report of this run is the report as the previous run left it,
\* and the previous run wrote it
WrittenByPreviousRun ==
    /\ runs >= 2
    /\ prevAppended # <<>>
    /\ fileAtStart.state = "ok"
    /\ Len(fileAtStart.entries) >= Len(prevAppended)
    /\ SubSeq(fileAtStart.entries,
              Len(fileAtStart.entries) - Len(prevAppended) + 1,
              Len(fileAtStart.entries)) = prevAppended

(* C4, as claimed: a second run on the same input files, with the report   *)
(* the first run wrote as prior report, appends no entry that the report   *)
(* already holds.                                                          *)
C4_SecondRunAppendsNothingKnown ==
    (InRun /\ WrittenByPreviousRun) =>
        \A k \in 1..Len(AppendedThisRun) :
            \A j \in 1..Len(loaded) : AppendedThisRun[k] # loaded[j]

(* C4, amended: the merger appends every entry of the run without          *)
(* comparing it with the prior report; a second run on the same input      *)
(* files, with the report the first run wrote as prior report, appends     *)
(* again exactly the entries the first run appended.                       *)
C4_SecondRunAppendsTheSameAgain ==
    (pc \in { "done", "crashed" } /\ WrittenByPreviousRun) =>
        final_report = fileAtStart.entries \o prevAppended

\* a second run that has appended a sequence-source and a map-source entry
\* the report already held
C4_Witness ==
    /\ pc = "done"
    /\ WrittenByPreviousRun
    /\ \E i, j \in 1..Len(prevAppended) :
          prevAppended[i].source = "markov" /\ prevAppended[j].source = "som"
    /\ Len(final_report) = Len(loaded) + Len(prevAppended)

(* C5: the report file differs from what the run found only after the      *)
(* write decision of a run whose report grew; a run that appended nothing  *)
(* or that ended early leaves the file as it found it, in every run.       *)
C5_RewrittenOnlyWhenGrown ==
    file # fileAtStart =>
        pc = "done" /\ Len(final_report) > initial_report_size

\* a repeated run with a missing Markov file and no qualifying SOM record,
\* on an existing report: no write
C5_Witness ==
    /\ pc = "done"
    /\ runs >= 2
    /\ markovStatus = "notfound"
    /\ somStatus = "done"
    /\ somIndex >= 1
    /\ Len(final_report) = initial_report_size
    /\ file.state = "ok"
    /\ file.entries # <<>>
    /\ file = fileAtStart

(* C6: every map-source record, total_epochs 0 included, is evaluated to a *)
(* match list: no fault leaves process_som_file and ends the run.          *)
C6_NoFaultPropagates == pc # "crashed" /\ somStatus # "raised"

(* C7: for every map-source record the T1090 match is contributed exactly  *)
(* when flagged_epochs = total_epochs and attack_score = 0, with           *)
(* confidence 0.65.                                                        *)
C7_ProxyRuleExactly ==
    out # <<>> =>
        LET t == out[1].techniques
        IN  /\ HasId(t, "T1090") <=>
                  (/\ Get(arg, "flagged_epochs", 0) = Get(arg, "total_epochs", 1)
                   /\ Get(arg, "attack_score", 0) = 0)
            /\ \A i \in 1..Len(t) :
                  t[i].id = "T1090" => t[i].confidence = 650

(* C8: a missing file of either source, or a SOM array that does not       *)
(* parse, ends only that source's step: the step appends nothing, the      *)
(* entries already in the report stay, and the run goes on to the other    *)
(* source, the write decision and the summary.                             *)
C8_SourceFailureEndsOnlyItsStep ==
    /\ markovStatus = "notfound" =>
          /\ \A k \in 1..Len(AppendedThisRun) :
                AppendedThisRun[k].source # "markov"
          /\ SubSeq(final_report, 1, initial_report_size) = loaded
          /\ pc \in { "som", "write", "done" }
    /\ somStatus \in { "notfound", "badjson" } =>
          /\ \A k \in 1..Len(AppendedThisRun) :
                AppendedThisRun[k].source # "som"
          /\ SubSeq(final_report, 1, initial_report_size) = loaded
          /\ pc \in { "write", "done" }

(* C9: at every point of a run the in-memory report is the loaded prior    *)
(* report, then the run's sequence-source entries in retained-user order,  *)
(* then its map-source entries in array order; a report the run wrote is   *)
(* that list.                                                              *)
C9_ReportIsPriorThenMarkovThenSom ==
    InRun =>
        /\ loaded = IF fileAtStart.state = "ok" THEN fileAtStart.entries
                    ELSE <<>>
        /\ initial_report_size = Len(loaded)
        /\ final_report =
              loaded
              \o (IF markovStatus = "done"
                  THEN ExpectedMarkovEntries(LinesRead, 1) ELSE <<>>)
              \o ExpectedSomEntries(somFile,
                     IF somStatus = "raised" THEN somIndex - 1 ELSE somIndex)
        /\ (file # fileAtStart /\ file.state = "ok") =>
              file.entries = final_report

\* a written report: a prior entry, then entries of two users of the
\* Markov file, then two map-source entries
C9_Witness ==
    /\ pc = "done"
    /\ file # fileAtStart
    /\ file.state = "ok"
    /\ Len(loaded) >= 1
    /\ Len(file.entries) = Len(loaded) + 4
    /\ file.entries[Len(loaded) + 1].source = "markov"
    /\ file.entries[Len(loaded) + 2].source = "markov"
    /\ file.entries[Len(loaded) + 2].sequence_id.n = 2
    /\ file.entries[Len(loaded) + 3].source = "som"
    /\ file.entries[Len(loaded) + 4].source = "som"

(* C10: once the Markov step is done, every user with a well-formed        *)
(* record of metric 1.0 (score 0 or score >= 4) in the input has exactly   *)
(* one sequence-source entry among those the run appended, and its         *)
(* detected_techniques is not empty.                                       *)
C10_MaximalAnomalyUserGetsOneEntry ==
    markovStatus = "done" =>
        \A u \in UsersOf(LinesRead) :
            (\E j \in LinesOf(LinesRead, u) :
                 MetricOf(LinesRead[j].data) = 1000)
            => LET mine == { k \in 1..Len(AppendedThisRun) :
                               /\ AppendedThisRun[k].source = "markov"
                               /\ AppendedThisRun[k].user_id = u }
               IN  /\ Cardinality(mine) = 1
                   /\ \A k \in mine :
                         AppendedThisRun[k].detected_techniques # <<>>

\* u1 has a record below the gate first and a record of score 0 later, and
\* has its one entry, after an entry of u2
C10_Witness ==
    /\ markovStatus = "done"
    /\ total_sequences >= 2
    /\ LinesOf(LinesRead, "u1") # {}
    /\ MetricOf(LinesRead[MinOf(LinesOf(LinesRead, "u1"))].data) < 900
    /\ \E j \in LinesOf(LinesRead, "u1") :
          "score" \in DOMAIN LinesRead[j].data /\ LinesRead[j].data["score"] = 0
    /\ Len(AppendedThisRun) = 2
    /\ AppendedThisRun[1].user_id = "u2"
    /\ AppendedThisRun[2].user_id = "u1"
    /\ AppendedThisRun[2].source = "markov"
    /\ HasId(AppendedThisRun[2].detected_techniques, "TA0009")

====
